---- MODULE Spec2Model ----
(***************************************************************************)
(* Model of the beacon chain aggregate (beacon_chain/chain/src/lib.rs):    *)
(* BeaconChain::new, executed statement by statement in a call frame, and  *)
(* BeaconChain::canonical_block_hash.  A caller constructs twice, so that   *)
(* construction can be compared across runs.                               *)
(***************************************************************************)
EXTENDS Integers, Sequences, FiniteSets, TLC

\* ------------------------------------------------------------------ bounds
MaxValidators == 2      \* longest initial_validators sequence explored
MaxCycleLength == 2     \* largest config.cycle_length explored
MaxShardCount == 2      \* largest config.shard_count explored

Runs == 1..2                    \* successive invocations of BeaconChain::new
Registrations == {"va"}         \* ValidatorRegistration values (new never reads their content)
Stores == {"db1", "db2"}        \* distinct BeaconChainStore handles

\* ------------------------------------------------------------------- types
\* Hash256: the zero hash plus one other value of the key space.
Hash256 == 0..1
Zero == 0

RECURSIVE SeqsUpTo(_, _)
SeqsUpTo(S, n) ==
    IF n = 0 THEN {<<>>}
    ELSE LET shorter == SeqsUpTo(S, n - 1)
         IN  shorter \cup {Append(s, x) : s \in {t \in shorter : Len(t) = n - 1}, x \in S}

\* ChainConfig: the fields of the configuration that construction consumes.
ChainConfig ==
    [cycle_length : 1..MaxCycleLength,
     shard_count : 1..MaxShardCount,
     initial_validators : SeqsUpTo(Registrations, MaxValidators)]

\* HashMap::new() and HashMap::insert.
EmptyMap == << >>
MapInsert(m, k, v) == [h \in (DOMAIN m) \cup {k} |-> IF h = k THEN v ELSE m[h]]

\* ------------------------------------------------------- genesis generator
\* The validators assigned to slot s of a cycle, in increasing index order:
\* validator v (0-based) serves slot v % cycle_length.
CommitteeForSlot(n, cycle_length, s) ==
    LET count == IF n > s THEN ((n - s - 1) \div cycle_length) + 1 ELSE 0
    IN  [k \in 1..count |-> s + (k - 1) * cycle_length]

\* One cycle of the assignment table: per slot, one shard/committee grouping.
ShardAndCommitteesForCycle(cfg) ==
    [i \in 1..cfg.cycle_length |->
        << [shard |-> (i - 1) % cfg.shard_count,
            committee |-> CommitteeForSlot(Len(cfg.initial_validators),
                                           cfg.cycle_length, i - 1)] >>]

\* genesis_states(&config): Err(InvalidGenesis) for an inconsistent
\* configuration (fewer validators than shards), otherwise the slot-0
\* (ActiveState, CrystallizedState) pair; the table covers two cycles.
genesis_states(cfg) ==
    IF Len(cfg.initial_validators) < cfg.shard_count
    THEN [tag |-> "Err", kind |-> "InvalidGenesis"]
    ELSE LET cycle == ShardAndCommitteesForCycle(cfg)
         IN  [tag |-> "Ok",
              active_state |->
                  [recent_block_hashes |-> [i \in 1..(2 * cfg.cycle_length) |-> Zero],
                   pending_attestations |-> << >>],
              crystallized_state |->
                  [validators |-> cfg.initial_validators,
                   shard_and_committee_for_slots |-> cycle \o cycle,
                   last_justified_slot |-> 0,
                   last_finalized_slot |-> 0]]

\* ---------------------------------------------------- committee map builder
\* A slot is malformed when it designates no proposer committee or references
\* a shard with zero assigned validators.
SlotMalformed(slot) ==
    \/ Len(slot) = 0
    \/ \E j \in 1..Len(slot) : Len(slot[j].committee) = 0

\* Every (slot number, shard, committee) grouping of the table.
TableEntries(table, start_slot) ==
    UNION { { [slot |-> (i - 1) + start_slot,
               shard |-> table[i][j].shard,
               committee |-> table[i][j].committee] : j \in 1..Len(table[i]) }
            : i \in 1..Len(table) }

\* generate_attester_and_proposer_maps(&table, start_slot): the attester
\* lookup keeps each committee in table order; the proposer of a slot is the
\* first entry of the slot's first (designated) committee.
generate_attester_and_proposer_maps(table, start_slot) ==
    IF Len(table) > 0 /\ start_slot % Len(table) # 0
    THEN [tag |-> "Err", cause |-> "MisalignedStartSlot"]
    ELSE IF \E i \in 1..Len(table) : SlotMalformed(table[i])
    THEN [tag |-> "Err", cause |-> "EmptyCommittee"]
    ELSE LET entries == TableEntries(table, start_slot)
         IN  [tag |-> "Ok",
              attester_map |->
                  [k \in { <<e.slot, e.shard>> : e \in entries } |->
                      (CHOOSE e \in entries : <<e.slot, e.shard>> = k).committee],
              proposer_map |->
                  [s \in start_slot..(start_slot + Len(table) - 1) |->
                      table[s - start_slot + 1][1].committee[1]]]

\* impl From<AttesterAndProposerMapError> for BeaconChainError.
FromMapError(e) == [tag |-> "Err", kind |-> "UnableToGenerateMaps", cause |-> e]

\* ------------------------------------------------------------------- state
VARIABLES
    pc,                         \* position of each call frame in new
    store, config,              \* arguments of new
    live,                       \* the locals of new that have been bound
    active_state, crystallized_state,               \* line 62
    head_block_hashes, canonical_head_block_hash,   \* lines 65-66
    active_states, crystallized_states,             \* lines 67-68
    attester_proposer_maps,                         \* line 69
    attester_map, proposer_map,                     \* line 71
    genesis_calls, map_calls,   \* invocations of the two collaborators
    result,                     \* what new returned to its caller
    ret                         \* what canonical_block_hash returned

args == <<store, config>>
states == <<active_state, crystallized_state>>
heads == <<head_block_hashes, canonical_head_block_hash>>
maps == <<active_states, crystallized_states, attester_proposer_maps>>
built == <<attester_map, proposer_map>>
calls == <<genesis_calls, map_calls>>
vars == <<pc, args, live, states, heads, maps, built, calls, result, ret>>

None == [tag |-> "None"]
Err(kind) == [tag |-> "Err", kind |-> kind]

Init ==
    /\ pc = [r \in Runs |-> "idle"]
    /\ store = [r \in Runs |-> None]
    /\ config = [r \in Runs |-> None]
    /\ live = [r \in Runs |-> {}]
    /\ active_state = [r \in Runs |-> None]
    /\ crystallized_state = [r \in Runs |-> None]
    /\ head_block_hashes = [r \in Runs |-> << >>]
    /\ canonical_head_block_hash = [r \in Runs |-> 0]
    /\ active_states = [r \in Runs |-> EmptyMap]
    /\ crystallized_states = [r \in Runs |-> EmptyMap]
    /\ attester_proposer_maps = [r \in Runs |-> EmptyMap]
    /\ attester_map = [r \in Runs |-> None]
    /\ proposer_map = [r \in Runs |-> None]
    /\ genesis_calls = [r \in Runs |-> 0]
    /\ map_calls = [r \in Runs |-> 0]
    /\ result = [r \in Runs |-> None]
    /\ ret = [r \in Runs |-> None]

\* A caller invokes BeaconChain::new(store, config); new is synchronous, so
\* the caller's next invocation starts after the previous one has returned.
CallNew(r, s, cfg) ==
    /\ pc[r] = "idle"
    /\ \A q \in Runs : q < r => pc[q] = "done"
    /\ pc' = [pc EXCEPT ![r] = "check"]
    /\ store' = [store EXCEPT ![r] = [tag |-> "Store", handle |-> s]]
    /\ config' = [config EXCEPT ![r] = cfg]
    /\ UNCHANGED <<live, states, heads, maps, built, calls, result, ret>>

\* Variant of the check that lets an empty validator set through.
NewCheckValidators_Skipped(r) ==
    /\ pc[r] = "check"
    /\ pc' = [pc EXCEPT ![r] = "genesis"]
    /\ UNCHANGED <<args, live, states, heads, maps, built, calls, result, ret>>

\* Lines 58-60: the empty-validator-set check.
NewCheckValidators(r) ==
    /\ pc[r] = "check"
    /\ IF Len(config[r].initial_validators) = 0
       THEN /\ result' = [result EXCEPT ![r] = Err("InsufficientValidators")]
            /\ pc' = [pc EXCEPT ![r] = "done"]
       ELSE /\ pc' = [pc EXCEPT ![r] = "genesis"]
            /\ UNCHANGED result
    /\ UNCHANGED <<args, live, states, heads, maps, built, calls, ret>>

\* The states a variant falls back to when it does not propagate the error.
DefaultStates ==
    [tag |-> "Ok",
     active_state |-> [recent_block_hashes |-> << >>, pending_attestations |-> << >>],
     crystallized_state |-> [validators |-> << >>,
                             shard_and_committee_for_slots |-> << >>,
                             last_justified_slot |-> 0,
                             last_finalized_slot |-> 0]]

\* Variant of line 62 that swallows the error of genesis_states.
NewGenesis_IgnoreError(r) ==
    /\ pc[r] = "genesis"
    /\ genesis_calls' = [genesis_calls EXCEPT ![r] = @ + 1]
    /\ LET g0 == genesis_states(config[r])
           g == IF g0.tag = "Err" THEN DefaultStates ELSE g0
       IN  /\ active_state' = [active_state EXCEPT ![r] = g.active_state]
           /\ crystallized_state' = [crystallized_state EXCEPT ![r] = g.crystallized_state]
           /\ live' = [live EXCEPT ![r] = @ \cup {"active_state", "crystallized_state"}]
           /\ pc' = [pc EXCEPT ![r] = "locals"]
    /\ UNCHANGED <<args, heads, maps, built, map_calls, result, ret>>

\* Variant of line 62 whose genesis derivation depends on the store handle.
NewGenesis_ReadsStore(r) ==
    /\ pc[r] = "genesis"
    /\ genesis_calls' = [genesis_calls EXCEPT ![r] = @ + 1]
    /\ LET cfg == IF store[r].handle = "db1" THEN config[r]
                  ELSE [config[r] EXCEPT !.cycle_length = 1]
           g == genesis_states(cfg)
       IN  IF g.tag = "Err"
           THEN /\ result' = [result EXCEPT ![r] = Err(g.kind)]
                /\ pc' = [pc EXCEPT ![r] = "done"]
                /\ UNCHANGED <<live, states>>
           ELSE /\ active_state' = [active_state EXCEPT ![r] = g.active_state]
                /\ crystallized_state' =
                       [crystallized_state EXCEPT ![r] = g.crystallized_state]
                /\ live' = [live EXCEPT ![r] = @ \cup {"active_state", "crystallized_state"}]
                /\ pc' = [pc EXCEPT ![r] = "locals"]
                /\ UNCHANGED result
    /\ UNCHANGED <<args, heads, maps, built, map_calls, ret>>

\* Line 62: genesis_states(&config)?
NewGenesis(r) ==
    /\ pc[r] = "genesis"
    /\ genesis_calls' = [genesis_calls EXCEPT ![r] = @ + 1]
    /\ LET g == genesis_states(config[r])
       IN  IF g.tag = "Err"
           THEN /\ result' = [result EXCEPT ![r] = Err(g.kind)]
                /\ pc' = [pc EXCEPT ![r] = "done"]
                /\ UNCHANGED <<live, states>>
           ELSE /\ active_state' = [active_state EXCEPT ![r] = g.active_state]
                /\ crystallized_state' =
                       [crystallized_state EXCEPT ![r] = g.crystallized_state]
                /\ live' = [live EXCEPT ![r] = @ \cup {"active_state", "crystallized_state"}]
                /\ pc' = [pc EXCEPT ![r] = "locals"]
                /\ UNCHANGED result
    /\ UNCHANGED <<args, heads, maps, built, map_calls, ret>>

\* The locals of lines 64-69 with the given fork heads and canonical index.
InitLocalsWith(r, hashes, index) ==
    /\ pc[r] = "locals"
    /\ head_block_hashes' = [head_block_hashes EXCEPT ![r] = hashes]
    /\ canonical_head_block_hash' = [canonical_head_block_hash EXCEPT ![r] = index]
    /\ active_states' = [active_states EXCEPT ![r] = EmptyMap]
    /\ crystallized_states' = [crystallized_states EXCEPT ![r] = EmptyMap]
    /\ attester_proposer_maps' = [attester_proposer_maps EXCEPT ![r] = EmptyMap]
    /\ live' = [live EXCEPT ![r] = @ \cup
                   {"head_block_hashes", "canonical_head_block_hash", "active_states",
                    "crystallized_states", "attester_proposer_maps"}]
    /\ pc' = [pc EXCEPT ![r] = "maps"]
    /\ UNCHANGED <<args, states, built, calls, result, ret>>

\* Variant of line 65 that starts from the one non-zero hash.
NewInitLocals_WrongHead(r) == InitLocalsWith(r, <<1>>, 0)

\* Variant of line 66 with an index one past the only head.
NewInitLocals_BadIndex(r) == InitLocalsWith(r, <<Zero>>, 1)

\* Lines 64-69: the fork-head sequence, the canonical index, three empty maps.
NewInitLocals(r) ==
    /\ pc[r] = "locals"
    /\ head_block_hashes' = [head_block_hashes EXCEPT ![r] = <<Zero>>]
    /\ canonical_head_block_hash' = [canonical_head_block_hash EXCEPT ![r] = 0]
    /\ active_states' = [active_states EXCEPT ![r] = EmptyMap]
    /\ crystallized_states' = [crystallized_states EXCEPT ![r] = EmptyMap]
    /\ attester_proposer_maps' = [attester_proposer_maps EXCEPT ![r] = EmptyMap]
    /\ live' = [live EXCEPT ![r] = @ \cup
                   {"head_block_hashes", "canonical_head_block_hash", "active_states",
                    "crystallized_states", "attester_proposer_maps"}]
    /\ pc' = [pc EXCEPT ![r] = "maps"]
    /\ UNCHANGED <<args, states, built, calls, result, ret>>

\* Variant that performs the state inserts of lines 76-77 before the builder's
\* result is examined.
NewGenerateMaps_InsertFirst(r) ==
    /\ pc[r] = "maps"
    /\ map_calls' = [map_calls EXCEPT ![r] = @ + 1]
    /\ active_states' =
           [active_states EXCEPT ![r] = MapInsert(@, Zero, active_state[r])]
    /\ crystallized_states' =
           [crystallized_states EXCEPT ![r] = MapInsert(@, Zero, crystallized_state[r])]
    /\ LET m == generate_attester_and_proposer_maps(
                    crystallized_state[r].shard_and_committee_for_slots, 0)
       IN  IF m.tag = "Err"
           THEN /\ result' = [result EXCEPT ![r] = FromMapError(m.cause)]
                /\ pc' = [pc EXCEPT ![r] = "done"]
                /\ UNCHANGED <<live, built>>
           ELSE /\ attester_map' = [attester_map EXCEPT ![r] = m.attester_map]
                /\ proposer_map' = [proposer_map EXCEPT ![r] = m.proposer_map]
                /\ live' = [live EXCEPT ![r] = @ \cup {"attester_map", "proposer_map"}]
                /\ pc' = [pc EXCEPT ![r] = "insert"]
                /\ UNCHANGED result
    /\ UNCHANGED <<args, states, heads, attester_proposer_maps, genesis_calls, ret>>

\* Lines 71-74: generate_attester_and_proposer_maps(&table, 0)?
NewGenerateMaps(r) ==
    /\ pc[r] = "maps"
    /\ map_calls' = [map_calls EXCEPT ![r] = @ + 1]
    /\ LET m == generate_attester_and_proposer_maps(
                    crystallized_state[r].shard_and_committee_for_slots, 0)
       IN  IF m.tag = "Err"
           THEN /\ result' = [result EXCEPT ![r] = FromMapError(m.cause)]
                /\ pc' = [pc EXCEPT ![r] = "done"]
                /\ UNCHANGED <<live, built>>
           ELSE /\ attester_map' = [attester_map EXCEPT ![r] = m.attester_map]
                /\ proposer_map' = [proposer_map EXCEPT ![r] = m.proposer_map]
                /\ live' = [live EXCEPT ![r] = @ \cup {"attester_map", "proposer_map"}]
                /\ pc' = [pc EXCEPT ![r] = "insert"]
                /\ UNCHANGED result
    /\ UNCHANGED <<args, states, heads, maps, genesis_calls, ret>>

\* Variant of lines 76-81 without the crystallized_states insert.
NewInsert_NoCrystallized(r) ==
    /\ pc[r] = "insert"
    /\ active_states' =
           [active_states EXCEPT ![r] = MapInsert(@, Zero, active_state[r])]
    /\ attester_proposer_maps' =
           [attester_proposer_maps EXCEPT
               ![r] = MapInsert(@, Zero, <<attester_map[r], proposer_map[r]>>)]
    /\ pc' = [pc EXCEPT ![r] = "return"]
    /\ UNCHANGED <<args, live, states, heads, crystallized_states, built, calls, result, ret>>

\* Variant of lines 76-81 without the attester_proposer_maps insert.
NewInsert_NoCommitteeMaps(r) ==
    /\ pc[r] = "insert"
    /\ active_states' =
           [active_states EXCEPT ![r] = MapInsert(@, Zero, active_state[r])]
    /\ crystallized_states' =
           [crystallized_states EXCEPT ![r] = MapInsert(@, Zero, crystallized_state[r])]
    /\ pc' = [pc EXCEPT ![r] = "return"]
    /\ UNCHANGED <<args, live, states, heads, attester_proposer_maps, built, calls, result, ret>>

\* Variant of line 76 that stores an active state without its block history.
NewInsert_TruncatedState(r) ==
    /\ pc[r] = "insert"
    /\ active_states' =
           [active_states EXCEPT
               ![r] = MapInsert(@, Zero, [active_state[r] EXCEPT !.recent_block_hashes = << >>])]
    /\ crystallized_states' =
           [crystallized_states EXCEPT ![r] = MapInsert(@, Zero, crystallized_state[r])]
    /\ attester_proposer_maps' =
           [attester_proposer_maps EXCEPT
               ![r] = MapInsert(@, Zero, <<attester_map[r], proposer_map[r]>>)]
    /\ pc' = [pc EXCEPT ![r] = "return"]
    /\ UNCHANGED <<args, live, states, heads, built, calls, result, ret>>

\* Lines 76-81: the three inserts under the zero hash.
NewInsert(r) ==
    /\ pc[r] = "insert"
    /\ active_states' =
           [active_states EXCEPT ![r] = MapInsert(@, Zero, active_state[r])]
    /\ crystallized_states' =
           [crystallized_states EXCEPT ![r] = MapInsert(@, Zero, crystallized_state[r])]
    /\ attester_proposer_maps' =
           [attester_proposer_maps EXCEPT
               ![r] = MapInsert(@, Zero, <<attester_map[r], proposer_map[r]>>)]
    /\ pc' = [pc EXCEPT ![r] = "return"]
    /\ UNCHANGED <<args, live, states, heads, built, calls, result, ret>>

\* Lines 83-92: Ok(Self { .. }).
NewReturn(r) ==
    /\ pc[r] = "return"
    /\ result' = [result EXCEPT ![r] =
           [tag |-> "Ok",
            chain |-> [last_finalized_slot |-> 0,
                       head_block_hashes |-> head_block_hashes[r],
                       canonical_head_block_hash |-> canonical_head_block_hash[r],
                       active_states |-> active_states[r],
                       crystallized_states |-> crystallized_states[r],
                       attester_proposer_maps |-> attester_proposer_maps[r],
                       store |-> store[r],
                       config |-> config[r]]]]
    /\ pc' = [pc EXCEPT ![r] = "done"]
    /\ UNCHANGED <<args, live, states, heads, maps, built, calls, ret>>

\* Lines 95-97: self.head_block_hashes[self.canonical_head_block_hash];
\* indexing a Vec out of range panics.
canonical_block_hash(chain) ==
    IF chain.canonical_head_block_hash < Len(chain.head_block_hashes)
    THEN [tag |-> "Value", hash |-> chain.head_block_hashes[chain.canonical_head_block_hash + 1]]
    ELSE [tag |-> "Panic"]

\* A caller invokes canonical_block_hash on a constructed aggregate.
CanonicalBlockHash(r) ==
    /\ result[r].tag = "Ok"
    /\ ret[r] = None
    /\ ret' = [ret EXCEPT ![r] = canonical_block_hash(result[r].chain)]
    /\ UNCHANGED <<pc, args, live, states, heads, maps, built, calls, result>>

Next ==
    \/ \E r \in Runs, s \in Stores, cfg \in ChainConfig : CallNew(r, s, cfg)
    \/ \E r \in Runs : NewCheckValidators(r)
    \/ \E r \in Runs : NewGenesis(r)
    \/ \E r \in Runs : NewInitLocals(r)
    \/ \E r \in Runs : NewGenerateMaps(r)
    \/ \E r \in Runs : NewInsert(r)
    \/ \E r \in Runs : NewReturn(r)
    \/ \E r \in Runs : CanonicalBlockHash(r)

Spec == Init /\ [][Next]_vars

\* ----------------------------------------------------------------- claims
Done(r) == pc[r] = "done"
Constructed(r) == result[r].tag = "Ok"
NoMapEntries(r) ==
    /\ DOMAIN active_states[r] = {}
    /\ DOMAIN crystallized_states[r] = {}
    /\ DOMAIN attester_proposer_maps[r] = {}

\* C1: a call of new whose config has no initial validators ends with
\* Err(InsufficientValidators) at the first step: neither genesis_states nor
\* generate_attester_and_proposer_maps has been invoked, no local has been
\* bound and no map holds an entry.
C1_EmptyValidatorsRejectedFirst ==
    \A r \in Runs :
        (pc[r] \notin {"idle", "check"} /\ Len(config[r].initial_validators) = 0)
            => /\ Done(r)
               /\ result[r] = Err("InsufficientValidators")
               /\ genesis_calls[r] = 0
               /\ map_calls[r] = 0
               /\ live[r] = {}
               /\ NoMapEntries(r)

C1_Witness ==
    \E r \in Runs :
        /\ Done(r)
        /\ Len(config[r].initial_validators) = 0
        /\ result[r] = Err("InsufficientValidators")

\* C2: a successfully constructed aggregate has head_block_hashes = [zero
\* hash], canonical_head_block_hash = 0, last_finalized_slot = 0, and each of
\* the three maps has the zero hash as its only key.
C2_GenesisAggregateShape ==
    \A r \in Runs :
        Constructed(r) =>
            LET chain == result[r].chain
            IN  /\ chain.head_block_hashes = <<Zero>>
                /\ chain.canonical_head_block_hash = 0
                /\ chain.last_finalized_slot = 0
                /\ DOMAIN chain.active_states = {Zero}
                /\ DOMAIN chain.crystallized_states = {Zero}
                /\ DOMAIN chain.attester_proposer_maps = {Zero}

C2_Witness ==
    \E r \in Runs :
        /\ Constructed(r)
        /\ Zero \in DOMAIN result[r].chain.attester_proposer_maps
        /\ result[r].chain.last_finalized_slot = 0

\* C3: in every constructed aggregate the canonical index is within the
\* fork-head sequence, and canonical_block_hash returns the entry at that
\* index and never panics.
C3_CanonicalIndexValid ==
    \A r \in Runs :
        Constructed(r) =>
            LET chain == result[r].chain
            IN  /\ 0 <= chain.canonical_head_block_hash
                /\ chain.canonical_head_block_hash < Len(chain.head_block_hashes)
                /\ ret[r] # None =>
                       /\ ret[r].tag = "Value"
                       /\ ret[r].hash =
                              chain.head_block_hashes[chain.canonical_head_block_hash + 1]

C3_Witness ==
    \E r \in Runs : Constructed(r) /\ ret[r].tag = "Value" /\ ret[r].hash = Zero

\* C4: every hash of the fork-head sequence of an aggregate a caller holds is
\* a key of both active_states and crystallized_states, and a call that has
\* not returned exposes no aggregate at all.
C4_NoDanglingForkReference ==
    \A r \in Runs :
        /\ ~Done(r) => result[r] = None
        /\ Constructed(r) =>
               LET chain == result[r].chain
               IN  \A i \in 1..Len(chain.head_block_hashes) :
                       /\ chain.head_block_hashes[i] \in DOMAIN chain.active_states
                       /\ chain.head_block_hashes[i] \in DOMAIN chain.crystallized_states

C4_Witness ==
    \E r, q \in Runs :
        /\ Constructed(r)
        /\ Len(result[r].chain.head_block_hashes) = 1
        /\ pc[q] = "insert"
        /\ result[q] = None

\* C5: in a constructed aggregate crystallized_states and
\* attester_proposer_maps have the same keys, the entry of a key is the pair
\* built from the crystallized state of that key, and the builder was invoked
\* exactly once by the construction (never more than once by any call).
C5_OneCommitteeMapPerCrystallizedState ==
    \A r \in Runs :
        /\ map_calls[r] <= 1
        /\ Constructed(r) =>
               LET chain == result[r].chain
               IN  /\ DOMAIN chain.crystallized_states = DOMAIN chain.attester_proposer_maps
                   /\ map_calls[r] = 1
                   /\ \A h \in DOMAIN chain.crystallized_states :
                          h \in DOMAIN chain.attester_proposer_maps =>
                              LET m == generate_attester_and_proposer_maps(
                                           chain.crystallized_states[h].shard_and_committee_for_slots, 0)
                              IN  chain.attester_proposer_maps[h] = <<m.attester_map, m.proposer_map>>

C5_Witness ==
    \E r \in Runs :
        /\ Constructed(r)
        /\ map_calls[r] = 1
        /\ DOMAIN result[r].chain.attester_proposer_maps = {Zero}

\* The outcome of the builder on the table of the genesis crystallized state.
GenesisMaps(r) ==
    generate_attester_and_proposer_maps(crystallized_state[r].shard_and_committee_for_slots, 0)

\* C6: when the builder rejects the genesis table with cause e, new returns
\* Err(UnableToGenerateMaps(e)) with that cause, returns no aggregate, and
\* none of the three maps has received an entry.
C6_MapFailureKeepsCause ==
    \A r \in Runs :
        (map_calls[r] > 0 /\ GenesisMaps(r).tag = "Err")
            => /\ Done(r)
               /\ result[r] = [tag |-> "Err", kind |-> "UnableToGenerateMaps",
                               cause |-> GenesisMaps(r).cause]
               /\ NoMapEntries(r)

C6_Witness ==
    \E r \in Runs :
        /\ Done(r)
        /\ map_calls[r] = 1
        /\ result[r].tag = "Err"
        /\ result[r].kind = "UnableToGenerateMaps"
        /\ result[r].cause = "EmptyCommittee"

ErrorKinds == {"InsufficientValidators", "InvalidGenesis", "UnableToGenerateMaps"}

FullyInitialised(r) ==
    LET chain == result[r].chain
    IN  /\ chain.head_block_hashes # << >>
        /\ Zero \in DOMAIN chain.active_states
        /\ Zero \in DOMAIN chain.crystallized_states
        /\ Zero \in DOMAIN chain.attester_proposer_maps
        /\ chain.store = store[r]
        /\ chain.config = config[r]

\* C7: construction is all-or-nothing: a call that has not returned exposes
\* nothing, a returned call yields a fully initialised aggregate or one of the
\* three error kinds, and when genesis_states fails its error is the result
\* and the committee map builder was never invoked.
C7_AllOrNothing ==
    \A r \in Runs :
        /\ ~Done(r) => result[r] = None
        /\ Done(r) =>
               \/ Constructed(r) /\ FullyInitialised(r)
               \/ result[r].tag = "Err" /\ result[r].kind \in ErrorKinds
        /\ (genesis_calls[r] > 0 /\ genesis_states(config[r]).tag = "Err")
               => /\ Done(r)
                  /\ result[r] = Err("InvalidGenesis")
                  /\ map_calls[r] = 0
                  /\ NoMapEntries(r)

C7_Witness ==
    \E r \in Runs :
        /\ Done(r)
        /\ genesis_calls[r] = 1
        /\ result[r] = Err("InvalidGenesis")

\* C8: the active and crystallized states stored under the zero hash of a
\* constructed aggregate are the pair genesis_states returns for the config
\* the aggregate was constructed from.
C8_StoresGenesisPairUnmodified ==
    \A r \in Runs :
        Constructed(r) =>
            LET chain == result[r].chain
                g == genesis_states(config[r])
            IN  /\ g.tag = "Ok"
                /\ Zero \in DOMAIN chain.active_states
                /\ Zero \in DOMAIN chain.crystallized_states
                /\ chain.active_states[Zero] = g.active_state
                /\ chain.crystallized_states[Zero] = g.crystallized_state

C8_Witness ==
    \E r \in Runs :
        /\ Constructed(r)
        /\ Len(result[r].chain.crystallized_states[Zero].shard_and_committee_for_slots)
               = 2 * config[r].cycle_length
        /\ Len(result[r].chain.active_states[Zero].recent_block_hashes) > 0

\* What a call of new yields apart from the store handle it retains.
Outcome(r) ==
    IF Constructed(r)
    THEN [tag |-> "Ok",
          last_finalized_slot |-> result[r].chain.last_finalized_slot,
          head_block_hashes |-> result[r].chain.head_block_hashes,
          canonical_head_block_hash |-> result[r].chain.canonical_head_block_hash,
          active_states |-> result[r].chain.active_states,
          crystallized_states |-> result[r].chain.crystallized_states,
          attester_proposer_maps |-> result[r].chain.attester_proposer_maps]
    ELSE result[r]

====
